---- MODULE Spec2Model ----
(***************************************************************************)
(* Model of wix_preorder_ingestion.py: the CSV-driven importer that builds *)
(* one product payload per row and posts it to the Wix Stores v1 API.      *)
(*                                                                         *)
(* Money is counted in whole cents.  The remote platform, the scraped      *)
(* manufacturer page and the file system are the environment: every answer *)
(* they can give is a nondeterministic choice of the action that asks.     *)
(* A row's columns and the scraped values are drawn where main() first     *)
(* acts on them.                                                           *)
(***************************************************************************)
EXTENDS Integers, Sequences, FiniteSets, TLC

\* ---------------------------------------------------------------- bounds
MaxRows == 2                       \* rows yielded by read_rows in one run

\* ------------------------------------------------------ program constants
DEPOSIT_PCT == 30                  \* base * 0.30
FULLPAY_PCT == 95                  \* base * 0.95
CHOICE_DEPOSIT == "ANTICIPO/SALDO"
CHOICE_FULLPAY == "PAGAMENTO ANTICIPATO"
ExitOk == 0                        \* main() returns normally
ExitNoCredentials == 1             \* sys.exit(1)
ExitNoneCreated == 2               \* sys.exit(2)
ExitPrecheck == 3                  \* sys.exit(3)
ExitTraceback == 1                 \* uncaught exception leaving main()
Running == -1                      \* the process has not exited yet

\* ---------------------------------------------------------- input domains
NoValue == ""                      \* empty CSV cell / None
Names == {NoValue, "Statue X"}
SKUs == {"ABC-1"}
PriceCells == {0, 1, 10000}        \* prezzo_eur in cents (0.01, 100.00);
                                   \* 0 = empty, unparsable or not positive
Categories == {NoValue, "Statue da collezione"}
PesoCells == {"empty", "number", "malformed"}   \* "", "1,5", "1.2.3 kg"
Shapes == {1, 2, 3}                \* 1 flat mapping, 2 choiceValue pairs,
                                   \* 3 choiceDescription pairs
FLAT_SHAPE == 1

VARIABLES
    pc,          \* position of main()
    creds,       \* WIX_API_KEY and WIX_SITE_ID both set
    dry,         \* DRY_RUN == "1"
    skip_pre,    \* SKIP_PRECHECK == "1"
    accepted,    \* the 'selected choice' shape this remote acknowledges
    rownum,      \* rows yielded so far by read_rows
    cur,         \* the validated columns of the row being processed
    product,     \* payload built for the row being processed
    pid,         \* product id returned by the create call (0 = none)
    remote,      \* remote catalog: sequence of products, id = index
    created,     \* the list written to created_products.json
    calls,       \* requests sent to the remote for the current row, in order
    listed,      \* collection/category list requests served in this run
    outcome,     \* how the last finished row ended ("none" before the first)
    finished,    \* rows that reached an outcome
    exitCode,    \* process exit status, Running while alive
    aborted      \* where an uncaught exception left main(): "no", "in_row", "at_end"

vars == <<pc, creds, dry, skip_pre, accepted, rownum, cur, product, pid,
          remote, created, calls, listed, outcome, finished, exitCode, aborted>>

NoRow == [name |-> NoValue, url_ok |-> FALSE, price |-> 0]
NoProduct == [name |-> NoValue, sku |-> NoValue, price |-> 0, variants |-> <<>>,
              shape |-> FLAT_SHAPE]

\* ------------------------------------------------------------- pure parts

\* round(x, 2) of x = num/den cents: nearest cent; on an exact half the
\* binary float decides, so the direction is an input (up).
Round2(num, den, up) ==
    LET q == num \div den
        r == num % den
    IN  IF 2 * r < den THEN q
        ELSE IF 2 * r > den THEN q + 1
        ELSE IF up THEN q + 1 ELSE q

\* compute_prices(base) -> (deposito, anticipato)
compute_prices(base, upD, upA) ==
    << Round2(base * DEPOSIT_PCT, 100, upD), Round2(base * FULLPAY_PCT, 100, upA) >>

\* to_float_kg(s): TRUE when the call raises instead of returning
to_float_kg_raises(cell) == cell = "malformed"

\* the two entries of product["variants"], or none when not a preorder
Variants(is_preorder, price, upD, upA) ==
    IF is_preorder
    THEN LET p == compute_prices(price, upD, upA)
         IN  << [choice |-> CHOICE_DEPOSIT, price |-> p[1]],
                [choice |-> CHOICE_FULLPAY, price |-> p[2]] >>
    ELSE <<>>

\* one request of wix_request; shape is the 'selected choice' encoding of
\* the variants it carries (0 = the request carries no variants)
Call(op, resp, shape) == [op |-> op, row |-> rownum, resp |-> resp, shape |-> shape]

HasSku(cat, sku) == \E i \in DOMAIN cat : cat[i].sku = sku

\* answers the remote can give to POST /stores/v1/products for payload p
CreateAnswers(p) ==
    IF p.variants # <<>> /\ p.shape \notin accepted
    THEN {"badshape", "error"}
    ELSE {"ok", "noid", "error"}
         \cup (IF p.sku # NoValue /\ HasSku(remote, p.sku) THEN {"dup"} ELSE {})

RemoteProduct(p) ==
    [sku |-> p.sku, price |-> p.price,
     variants |-> p.variants, media |-> FALSE]

\* ------------------------------------------------------------------ Init
Init ==
    /\ pc = "start"
    /\ creds \in BOOLEAN
    /\ dry \in BOOLEAN
    /\ skip_pre \in BOOLEAN
    /\ accepted \in {{s} : s \in Shapes}
    /\ rownum = 0
    /\ cur = NoRow
    /\ product = NoProduct
    /\ pid = 0
    /\ remote = <<>>
    /\ created = <<>>
    /\ calls = <<>>
    /\ listed = 0
    /\ outcome = "none"
    /\ finished = 0
    /\ exitCode = Running
    /\ aborted = "no"

\* --------------------------------------------------------------- actions

\* main(): credentials check
CheckCredentials ==
    /\ pc = "start"
    /\ IF creds
       THEN pc' = "precheck" /\ exitCode' = exitCode
       ELSE pc' = "exit" /\ exitCode' = ExitNoCredentials
    /\ UNCHANGED <<creds, dry, skip_pre, accepted, rownum, cur, product, pid,
                   remote, created, calls, listed, outcome, finished, aborted>>

\* main(): precheck(), unless SKIP_PRECHECK=1
Precheck ==
    /\ pc = "precheck"
    /\ IF skip_pre
       THEN pc' = "rows" /\ UNCHANGED <<calls, exitCode>>
       ELSE \E ok \in BOOLEAN :
              /\ calls' = Append(calls, Call("products/query", IF ok THEN "ok" ELSE "error", 0))
              /\ IF ok
                 THEN pc' = "rows" /\ exitCode' = exitCode
                 ELSE pc' = "exit" /\ exitCode' = ExitPrecheck
    /\ UNCHANGED <<creds, dry, skip_pre, accepted, rownum, cur, product, pid,
                   remote, created, listed, outcome, finished, aborted>>

\* the price check dropped
row_valid_url_only(url_ok, prezzo) == url_ok

\* a row reaches its outcome (the line main() prints for it)
Ended(how) == outcome' = how /\ finished' = finished + 1

\* the two checks at the head of the loop body: URL scheme, price > 0
row_valid(url_ok, prezzo) == url_ok /\ prezzo > 0

\* loop head: read_rows yields a row; URL and price are validated
NextRow ==
    /\ pc = "rows"
    /\ rownum < MaxRows
    /\ \E name \in Names, url_ok \in BOOLEAN, prezzo \in PriceCells :
         /\ rownum' = rownum + 1
         /\ cur' = [name |-> name, url_ok |-> url_ok, price |-> prezzo]
         /\ IF row_valid(url_ok, prezzo)
            THEN /\ UNCHANGED <<outcome, finished>>
                 /\ pc' = "prepare"
            ELSE /\ Ended("Skipped")
                 /\ pc' = "rows"
    /\ product' = NoProduct
    /\ pid' = 0
    /\ calls' = <<>>
    /\ UNCHANGED <<creds, dry, skip_pre, accepted, remote, created, listed,
                   exitCode, aborted>>

\* an uncaught exception unwinds main(): the interpreter exits with 1
Abort(where) ==
    /\ pc' = "exit"
    /\ exitCode' = ExitTraceback
    /\ aborted' = where

\* the remaining columns are read, the page is scraped, the payload is built
Prepare ==
    /\ pc = "prepare"
    /\ \E sku \in SKUs \cup {NoValue}, peso \in PesoCells,
          is_preorder \in BOOLEAN, scraped_sku \in SKUs \cup {NoValue},
          upD \in BOOLEAN, upA \in BOOLEAN :
         IF to_float_kg_raises(peso)
         THEN /\ Abort("in_row")
              /\ UNCHANGED product
         ELSE /\ product' =
                   [name |-> cur.name,
                    sku |-> IF sku # NoValue THEN sku ELSE scraped_sku,
                    price |-> cur.price,
                    variants |-> Variants(is_preorder, cur.price, upD, upA),
                    shape |-> FLAT_SHAPE]
              /\ pc' = "payload"
              /\ UNCHANGED <<exitCode, aborted>>
    /\ UNCHANGED <<creds, dry, skip_pre, accepted, rownum, cur, pid, remote,
                   created, calls, listed, outcome, finished>>

\* artifacts/payload_row_N.json is written; a dry run stops the row here
WritePayload ==
    /\ pc = "payload"
    /\ \E written \in BOOLEAN :
         IF ~written
         THEN Abort("in_row") /\ UNCHANGED <<outcome, finished>>
         ELSE /\ UNCHANGED <<exitCode, aborted>>
              /\ IF dry
                 THEN pc' = "rows" /\ Ended("DryRun")
                 ELSE pc' = "create" /\ UNCHANGED <<outcome, finished>>
    /\ UNCHANGED <<creds, dry, skip_pre, accepted, rownum, cur, product, pid,
                   remote, created, calls, listed>>

\* create_product_v1 inside try/except; both branches write response_row_N.json
CreateProduct ==
    /\ pc = "create"
    /\ \E resp \in CreateAnswers(product), stored \in BOOLEAN,
          written \in BOOLEAN, handler_written \in BOOLEAN :
         LET committed == resp = "ok" \/ (resp = "noid" /\ stored)
             raised == resp \in {"dup", "badshape", "error"} \/ ~written
         IN  /\ calls' = Append(calls, Call("products", resp, product.shape))
             /\ remote' = IF committed THEN Append(remote, RemoteProduct(product))
                          ELSE remote
             /\ IF raised /\ ~handler_written
                THEN Abort("in_row") /\ UNCHANGED <<outcome, finished, pid>>
                ELSE /\ UNCHANGED <<exitCode, aborted>>
                     /\ IF raised \/ resp = "noid"
                        THEN /\ Ended("Failed")
                             /\ pc' = "rows"
                             /\ pid' = pid
                        ELSE /\ UNCHANGED <<outcome, finished>>
                             /\ pc' = "media"
                             /\ pid' = Len(remote')
    /\ UNCHANGED <<creds, dry, skip_pre, accepted, rownum, cur, product, created,
                   listed>>

\* a compensating rollback: the product is deleted when the upload fails
MediaAnswer_rollback(cat, id, ok) ==
    IF ok THEN [cat EXCEPT ![id].media = TRUE] ELSE SubSeq(cat, 1, id - 1)

\* the catalog after POST products/{id}/media was answered
MediaAnswer(cat, id, ok) ==
    IF ok THEN [cat EXCEPT ![id].media = TRUE] ELSE cat

\* add_media_v1: fallback upload of the images, failure only warned
AddMedia ==
    /\ pc = "media"
    /\ \E immagini \in BOOLEAN, scraped_images \in BOOLEAN, ok \in BOOLEAN :
         IF immagini \/ scraped_images
         THEN /\ calls' = Append(calls, Call("products/media", IF ok THEN "ok" ELSE "error", 0))
              /\ remote' = MediaAnswer(remote, pid, ok)
         ELSE UNCHANGED <<calls, remote>>
    /\ pc' = "category"
    /\ UNCHANGED <<creds, dry, skip_pre, accepted, rownum, cur, product, pid,
                   created, listed, outcome, finished, exitCode, aborted>>

ListAnswers == {"error", "absent", "present"}

\* find_category_or_collection_id + add_product_to_collection, then
\* created.append(...).  The request changes the members of a collection,
\* which the catalog of products does not hold.
AssignCategory ==
    /\ pc = "category"
    /\ \E categoria \in Categories, cols \in ListAnswers, cats \in ListAnswers,
          ok \in BOOLEAN :
         IF categoria # NoValue
         THEN LET queries == << Call("collections/query", cols, 0),
                                Call("categories/query", cats, 0) >>
                  cid == cols = "present" \/ cats = "present"
              IN  /\ calls' = IF cid
                               THEN calls \o queries \o
                                    << Call("collections/productIds",
                                            IF ok THEN "ok" ELSE "error", 0) >>
                               ELSE calls \o queries
                  /\ listed' = listed + 1
         ELSE UNCHANGED <<calls, listed>>
    /\ created' = Append(created, [row |-> rownum, id |-> pid])
    /\ Ended("Created")
    /\ pc' = "rows"
    /\ UNCHANGED <<creds, dry, skip_pre, accepted, rownum, cur, product, pid,
                   remote, exitCode, aborted>>

\* the DRY_RUN exemption applied the wrong way round
ExitStatus_inverted(made, dry_run) ==
    IF made = <<>> /\ dry_run THEN ExitNoneCreated ELSE ExitOk

\* the exit status of a run that reached the end of main()
ExitStatus(made, dry_run) ==
    IF made = <<>> /\ ~dry_run THEN ExitNoneCreated ELSE ExitOk

\* read_rows is exhausted: created_products.json is written, exit status set
Finish ==
    /\ pc = "rows"
    /\ \E written \in BOOLEAN :
         IF ~written
         THEN Abort("at_end")
         ELSE /\ pc' = "exit"
              /\ aborted' = aborted
              /\ exitCode' = ExitStatus(created, dry)
    /\ UNCHANGED <<creds, dry, skip_pre, accepted, rownum, cur, product, pid,
                   remote, created, calls, listed, outcome, finished>>

Next ==
    \/ CheckCredentials
    \/ Precheck
    \/ NextRow
    \/ Prepare
    \/ WritePayload
    \/ CreateProduct
    \/ AddMedia
    \/ AssignCategory
    \/ Finish

Spec == Init /\ [][Next]_vars

TypeOK ==
    /\ pc \in {"start", "precheck", "rows", "prepare", "payload", "create",
               "media", "category", "exit"}
    /\ rownum \in 0..MaxRows
    /\ finished \in 0..rownum
    /\ outcome \in {"none", "Skipped", "DryRun", "Failed", "Created"}
    /\ pid \in 0..Len(remote)
    /\ aborted \in {"no", "in_row", "at_end"}
    /\ exitCode \in {Running, ExitOk, ExitNoCredentials, ExitNoneCreated,
                     ExitPrecheck, ExitTraceback}

\* ------------------------------------------------------------ observations
CreateCalls == {i \in DOMAIN calls : calls[i].op = "products"}
LocateCalls == {i \in DOMAIN calls : calls[i].op = "products/query" /\ calls[i].row > 0}
RowDone == pc = "rows" /\ rownum >= 1 /\ finished = rownum
AnyCreated == created # <<>>
WithSku(sku) == {i \in DOMAIN remote : remote[i].sku = sku}
SameCore(a, b) == a.sku = b.sku /\ a.price = b.price /\ a.variants = b.variants

C2_RowFailuresContained ==
    /\ aborted # "in_row"
    /\ pc = "exit" => finished = rownum

\* C3: when a row equal to one that an earlier pass Created (same SKU, price
\* and variants) is processed again and the remote answers the create with
\* a product id or with its duplicate-SKU signal, the row ends Updated and
\* the catalog holds exactly one product with that SKU.
C3_SecondPassUpdates ==
    (/\ RowDone
     /\ product.name # NoValue /\ product.sku # NoValue /\ product.variants # <<>>
     /\ \E k \in DOMAIN created :
            created[k].row < rownum /\ SameCore(remote[created[k].id], product)
     /\ \E i \in CreateCalls :
            calls[i].resp = "dup" \/ (calls[i].resp = "ok" /\ pid # 0))
    => (outcome = "Updated" /\ Cardinality(WithSku(product.sku)) = 1)

\* C4: a row whose create was answered with the duplicate-SKU signal runs the
\* locator exactly once afterwards, and ends Updated when the catalog holds
\* the SKU.
C4_DuplicateRelocatesOnce ==
    (RowDone /\ \E i \in CreateCalls : calls[i].resp = "dup")
    => /\ Cardinality(LocateCalls) = 1
       /\ HasSku(remote, product.sku) => outcome = "Updated"

C6_VariantPricesPositive ==
    CreateCalls # {} =>
        \A v \in DOMAIN product.variants : product.variants[v].price > 0

\* C7: when the remote rejected a payload shape, the row does not end before
\* the shape the remote accepts has been tried, the shapes being tried in the
\* order 1, 2, 3.
C7_ShapesTriedInOrder ==
    (RowDone /\ \E i \in CreateCalls : calls[i].resp = "badshape")
    => LET tried == {calls[i].shape : i \in CreateCalls}
           last == CHOOSE s \in accepted : TRUE
       IN  tried = 1..last

\* C8: every create call of a row is preceded by a locator query of that row.
C8_LocateBeforeCreate ==
    \A i \in CreateCalls :
        \E j \in LocateCalls : j < i /\ calls[j].row = calls[i].row

\* C9: no step removes a product from the remote catalog or changes the SKU,
\* price or variants it was committed with; media once attached stay attached.
C9_NoRollback ==
    [][\A i \in DOMAIN remote :
          /\ i \in DOMAIN remote'
          /\ SameCore(remote'[i], remote[i])
          /\ remote[i].media => remote'[i].media]_vars

C9_Witness ==
    /\ RowDone /\ outcome = "Created"
    /\ \E i \in DOMAIN calls : calls[i].op = "products/media" /\ calls[i].resp = "error"
    /\ \E i \in DOMAIN calls :
          calls[i].op = "collections/productIds" /\ calls[i].resp = "error"
    /\ pid \in DOMAIN remote /\ remote[pid] = RemoteProduct(product)

\* C10: the remote category lists are requested at most once in a run.
C10_CategoriesListedOnce ==
    listed <= 1

MutatingOps == {"products", "products/media", "collections/productIds"}

\* C11: in a dry run that got past start-up no mutating request (product
\* create, add media, add product to collection) is ever sent, the list of
\* created products stays empty, and the process, once the rows are done
\* and created_products.json is written, has exit code 0.
C11_DryRunExitsZero ==
    (dry /\ creds /\ exitCode # ExitPrecheck) =>
        /\ \A i \in DOMAIN calls : calls[i].op \notin MutatingOps
        /\ created = <<>> /\ remote = <<>>
        /\ (pc = "exit" /\ aborted # "at_end") => exitCode = ExitOk
====
